---------------------------- MODULE Spec2Model ----------------------------
(***************************************************************************)
(* Model of the AoPS substitute-request API (main.py): the IMAP fetch, the *)
(* per-message field extraction, the three count distributions and the     *)
(* 24 hour cache that the three endpoints share.                           *)
(*                                                                         *)
(* Text is modelled as a sequence of one-character strings, so that        *)
(* substring tests, lower-casing and the time-slot regular expression are  *)
(* computed character by character as Python computes them.               *)
(***************************************************************************)
EXTENDS Integers, Sequences, FiniteSets, TLC

\* Python's None, for values that are otherwise strings of the model
None == "None"

\* a value that may be None is a sequence of length at most one: Absent is
\* Python's None and Some(v) is the value v
Absent == << >>

Some(v) == <<v>>

(***************************************************************************)
(* Configuration (main.py lines 34-58).  Time is counted in hours.         *)
(***************************************************************************)
CACHE_INTERVAL == 24

LAST_N == 200

VALID_CLASSES ==
  << <<"M","a","t","h"," ","L","e","v","e","l"," ","1">>,
     <<"M","a","t","h"," ","L","e","v","e","l"," ","2">>,
     <<"M","a","t","h"," ","L","e","v","e","l"," ","3">>,
     <<"M","a","t","h"," ","L","e","v","e","l"," ","4">>,
     <<"M","a","t","h"," ","L","e","v","e","l"," ","5">>,
     <<"P","r","e","a","l","g","e","b","r","a">>,
     <<"A","l","g","e","b","r","a"," ","1">>,
     <<"A","l","g","e","b","r","a"," ","2">>,
     <<"G","e","o","m","e","t","r","y">>,
     <<"P","r","e","c","a","l","c","u","l","u","s">>,
     <<"C","a","l","c","u","l","u","s">> >>

WEEKDAY_ORDER ==
  << <<"M","o","n","d","a","y">>,
     <<"T","u","e","s","d","a","y">>,
     <<"W","e","d","n","e","s","d","a","y">>,
     <<"T","h","u","r","s","d","a","y">>,
     <<"F","r","i","d","a","y">>,
     <<"S","a","t","u","r","d","a","y">>,
     <<"S","u","n","d","a","y">> >>

(***************************************************************************)
(* Characters and strings.                                                 *)
(***************************************************************************)
UpperChars ==
  <<"A","B","C","D","E","F","G","H","I","J","K","L","M","N","O","P","Q","R","S","T","U","V","W","X","Y","Z">>

LowerChars ==
  <<"a","b","c","d","e","f","g","h","i","j","k","l","m","n","o","p","q","r","s","t","u","v","w","x","y","z">>

Digits == {"0","1","2","3","4","5","6","7","8","9"}

\* str.lower() on one character
LowerChar(c) ==
  IF \E i \in 1..26 : UpperChars[i] = c
  THEN LowerChars[CHOOSE i \in 1..26 : UpperChars[i] = c]
  ELSE c

\* str.lower()
LowerStr(s) == [i \in 1..Len(s) |-> LowerChar(s[i])]

\* the character at position p, or a sentinel past either end of the string
Char(s, p) == IF p >= 1 /\ p <= Len(s) THEN s[p] ELSE "EOS"

\* Python's  needle in haystack  on strings (case-sensitive substring test)
Contains(haystack, needle) ==
  \E i \in 1..(Len(haystack) - Len(needle) + 1) :
     SubSeq(haystack, i, i + Len(needle) - 1) = needle

(***************************************************************************)
(* extract_class_from_subject (main.py lines 85-95): the catalog is        *)
(* scanned in order and the first class whose lower-cased name occurs in   *)
(* the lower-cased subject is returned.                                    *)
(***************************************************************************)
\* the None that extract_class_from_subject returns; line 159 tests the
\* result for truth, and no class name is the empty string
NO_CLASS == << >>

\* the scan that keeps the last class found instead of returning the first
ScanClasses_LastHit(subject, i) ==
  LET hits == {j \in i..Len(VALID_CLASSES) : Contains(subject, LowerStr(VALID_CLASSES[j]))}
  IN IF hits = {} THEN NO_CLASS
     ELSE VALID_CLASSES[CHOOSE j \in hits : \A k \in hits : k <= j]

RECURSIVE ScanClasses(_, _)
ScanClasses(subject, i) ==
  IF i > Len(VALID_CLASSES) THEN NO_CLASS
  ELSE IF Contains(subject, LowerStr(VALID_CLASSES[i])) THEN VALID_CLASSES[i]
  ELSE ScanClasses(subject, i + 1)

extract_class_from_subject(subject) ==
  IF subject = << >> THEN NO_CLASS
  ELSE ScanClasses(LowerStr(subject), 1)

(***************************************************************************)
(* The time-slot pattern (main.py lines 142-147), searched with            *)
(* re.IGNORECASE:                                                          *)
(*   begins (\w+) .*? at (\d{1,2}:\d{2})\s*(am|pm)?                         *)
(*    and ends at (\d{1,2}:\d{2})\s*(am|pm)?                               *)
(* re.search takes the leftmost start; at that start \w+ is greedy, .*? is *)
(* lazy, \s* is greedy and an optional group is tried present first.       *)
(***************************************************************************)
LIT_BEGINS == <<"b","e","g","i","n","s"," ">>
LIT_AT == <<" ","a","t"," ">>
LIT_AND_ENDS_AT == <<" ","a","n","d"," ","e","n","d","s"," ","a","t"," ">>
LIT_AM == <<"a","m">>
LIT_PM == <<"p","m">>

IsDigit(c) == c \in Digits
IsWord(c) == IsDigit(c) \/ c = "_" \/ (\E i \in 1..26 : UpperChars[i] = c \/ LowerChars[i] = c)
IsSpace(c) == c \in {" ", "\t", "\n"}
IsDot(c) == c \notin {"\n", "EOS"}

\* a literal of the pattern (given in lower case) matches at position p, ignoring case
MatchLit(s, p, lit) == \A k \in 1..Len(lit) : LowerChar(Char(s, p + k - 1)) = lit[k]

\* the character classes of the pattern: \w, \s and .
InClass(c, class) ==
  CASE class = "w" -> IsWord(c)
    [] class = "s" -> IsSpace(c)
    [] class = "." -> IsDot(c)

\* the length of the longest run of characters of a class that starts at p
Run(s, p, class) ==
  CHOOSE n \in 0..Len(s) :
     /\ \A k \in 0..(n - 1) : InClass(Char(s, p + k), class)
     /\ ~InClass(Char(s, p + n), class)

\* a time token that takes in an am/pm marker written right after it
TimeEnd_WithMarker(s, p) ==
  LET e == IF /\ IsDigit(Char(s, p)) /\ IsDigit(Char(s, p + 1)) /\ Char(s, p + 2) = ":"
              /\ IsDigit(Char(s, p + 3)) /\ IsDigit(Char(s, p + 4))
           THEN p + 5
           ELSE IF /\ IsDigit(Char(s, p)) /\ Char(s, p + 1) = ":"
                   /\ IsDigit(Char(s, p + 2)) /\ IsDigit(Char(s, p + 3))
           THEN p + 4
           ELSE 0
  IN IF e # 0 /\ (MatchLit(s, e, LIT_AM) \/ MatchLit(s, e, LIT_PM)) THEN e + 2 ELSE e

\* \d{1,2}:\d{2} at position p: the position after the match, or 0
TimeEnd(s, p) ==
  IF /\ IsDigit(Char(s, p)) /\ IsDigit(Char(s, p + 1)) /\ Char(s, p + 2) = ":"
     /\ IsDigit(Char(s, p + 3)) /\ IsDigit(Char(s, p + 4))
  THEN p + 5
  ELSE IF /\ IsDigit(Char(s, p)) /\ Char(s, p + 1) = ":"
          /\ IsDigit(Char(s, p + 2)) /\ IsDigit(Char(s, p + 3))
  THEN p + 4
  ELSE 0

IsAmPm(s, p) == MatchLit(s, p, LIT_AM) \/ MatchLit(s, p, LIT_PM)

\* where " and ends at " starts when \s* takes n characters and (am|pm)? is
\* present (a = 1) or absent (a = 0), the first time ending before position q
EndsAtPos(q, n, a) == q + n + 2 * a

\* the ways  \s*(am|pm)? and ends at (\d{1,2}:\d{2})  can match from position q
TailOpts(s, q) ==
  { o \in (0..Run(s, q, "s")) \X {0, 1} :
      /\ (o[2] = 1 => IsAmPm(s, q + o[1]))
      /\ MatchLit(s, EndsAtPos(q, o[1], o[2]), LIT_AND_ENDS_AT)
      /\ TimeEnd(s, EndsAtPos(q, o[1], o[2]) + Len(LIT_AND_ENDS_AT)) # 0 }

\* the ways the pattern can match when "begins " starts at i: w is the length
\* of \w+ and d the length of .*?
MatchesAt(s, i) ==
  LET g == i + Len(LIT_BEGINS)
  IN { o \in (1..Run(s, g, "w")) \X (0..Len(s)) :
        /\ Char(s, g + o[1]) = " "
        /\ o[2] <= Run(s, g + o[1] + 1, ".")
        /\ MatchLit(s, g + o[1] + 1 + o[2], LIT_AT)
        /\ TimeEnd(s, g + o[1] + 1 + o[2] + Len(LIT_AT)) # 0
        /\ TailOpts(s, TimeEnd(s, g + o[1] + 1 + o[2] + Len(LIT_AT))) # {} }

\* the result of re.search when nothing matches (Python's None); in a match
\* group 1 is never empty
NO_MATCH == [group1 |-> << >>, group2 |-> << >>, group4 |-> << >>]

\* re.search(pattern, body, re.IGNORECASE): NO_MATCH, or the groups 1, 2 and 4
\* of the first match in the matcher's order of preference
re_search(body) ==
  LET starts == { i \in 1..Len(body) : MatchLit(body, i, LIT_BEGINS) /\ MatchesAt(body, i) # {} }
  IN IF starts = {} THEN NO_MATCH
     ELSE LET i  == CHOOSE x \in starts : \A y \in starts : x <= y
              g  == i + Len(LIT_BEGINS)
              ms == MatchesAt(body, i)
              w  == CHOOSE x \in {o[1] : o \in ms} : \A y \in {o[1] : o \in ms} : x >= y
              ds == {o[2] : o \in {m \in ms : m[1] = w}}
              d  == CHOOSE x \in ds : \A y \in ds : x <= y
              t1 == g + w + 1 + d + Len(LIT_AT)
              q  == TimeEnd(body, t1)
              ts == TailOpts(body, q)
              o  == CHOOSE x \in ts : \A y \in ts : 2 * x[1] + x[2] >= 2 * y[1] + y[2]
              t2 == EndsAtPos(q, o[1], o[2]) + Len(LIT_AND_ENDS_AT)
          IN [group1 |-> SubSeq(body, g, g + w - 1),
              group2 |-> SubSeq(body, t1, q - 1),
              group4 |-> SubSeq(body, t2, TimeEnd(body, t2) - 1)]

(***************************************************************************)
(* Messages.  A message has a subject header (Absent or Some text) and a   *)
(* list of leaf parts, each with a content type, a declared charset (None  *)
(* when absent) and a payload.  BadByte stands for a byte that is not      *)
(* valid in the declared charset.                                          *)
(***************************************************************************)
BadByte == "BadByte"

\* the codecs Python knows, among the charsets the messages declare
KnownCodecs == {"utf-8"}

MARKER ==
  <<"A"," ","s","u","b","s","t","i","t","u","t","e"," ","h","a","s"," ","b","e","e","n"," ","r","e","q","u","e","s","t","e","d"," ","f","o","r">>

MsgA ==
  [subject |-> Some(<<"A","l","g","e","b","r","a"," ","1"," ","C","l","a","s","s">>),
   multipart |-> FALSE,
   parts |-> <<
     [content_type |-> "text/plain", charset |-> "utf-8",
      payload |-> <<"A"," ","s","u","b","s","t","i","t","u","t","e"," ","h","a","s"," ","b","e","e","n"," ","r","e","q","u","e","s","t","e","d"," ","f","o","r"," ","y","o","u","."," ","C","l","a","s","s"," ","b","e","g","i","n","s"," ","M","o","n","d","a","y"," ","J","a","n"," ","5"," ","a","t"," ","9",":","0","0","a","m"," ","a","n","d"," ","e","n","d","s"," ","a","t"," ","1","0",":","3","0","a","m",".">>] >>]

MsgB ==
  [subject |-> Some(<<"S","u","b",":"," ","G","e","o","m","e","t","r","y">>),
   multipart |-> FALSE,
   parts |-> <<
     [content_type |-> "text/plain", charset |-> None,
      payload |-> <<"A"," ","s","u","b","s","t","i","t","u","t","e"," ","h","a","s"," ","b","e","e","n"," ","r","e","q","u","e","s","t","e","d"," ","f","o","r"," ","y","o","u","."," ","C","l","a","s","s"," ","B","E","G","I","N","S"," ","M","o","n","d","a","y"," ","J","a","n"," ","1","2"," ","A","T"," ","9",":","0","0"," ","P","M"," ","a","n","d"," ","e","n","d","s"," ","a","t"," ","1","0",":","3","0"," ","P","M">>] >>]

MsgC ==
  [subject |-> Some(<<"C","a","l","c","u","l","u","s">>),
   multipart |-> FALSE,
   parts |-> <<
     [content_type |-> "text/plain", charset |-> "utf-8",
      payload |-> <<"a"," ","s","u","b","s","t","i","t","u","t","e"," ","h","a","s"," ","b","e","e","n"," ","r","e","q","u","e","s","t","e","d"," ","f","o","r"," ","y","o","u","."," ","C","l","a","s","s"," ","b","e","g","i","n","s"," ","T","u","e","s","d","a","y"," ","J","a","n"," ","6"," ","a","t"," ","4",":","1","5","p","m"," ","a","n","d"," ","e","n","d","s"," ","a","t"," ","6",":","0","0","p","m",".">>] >>]

MsgD ==
  [subject |-> Some(<<"S","u","b"," ","n","e","e","d","e","d">>),
   multipart |-> FALSE,
   parts |-> <<
     [content_type |-> "text/plain", charset |-> "utf-8",
      payload |-> <<"A"," ","s","u","b","s","t","i","t","u","t","e"," ","h","a","s"," ","b","e","e","n"," ","r","e","q","u","e","s","t","e","d"," ","f","o","r"," ","y","o","u","."," ","C","l","a","s","s"," ","b","e","g","i","n","s"," ","T","u","e","s","d","a","y"," ","J","a","n"," ","6"," ","a","t"," ","4",":","1","5","p","m"," ","a","n","d"," ","e","n","d","s"," ","a","t"," ","6",":","0","0","p","m",".">>] >>]

MsgE ==
  [subject |-> Some(<<"P","R","E","C","A","L","C","U","L","U","S"," ","s","u","b">>),
   multipart |-> FALSE,
   parts |-> <<
     [content_type |-> "text/plain", charset |-> "utf-8",
      payload |-> <<"A"," ","s","u","b","s","t","i","t","u","t","e"," ","h","a","s"," ","b","e","e","n"," ",BadByte,"r","e","q","u","e","s","t","e","d"," ","f","o","r"," ","y","o","u","r"," ","c","l","a","s","s",";"," ","t","i","m","e"," ","t","o"," ","b","e"," ","a","n","n","o","u","n","c","e","d",".">>] >>]

MsgF ==
  [subject |-> Absent,
   multipart |-> TRUE,
   parts |-> <<
     [content_type |-> "text/plain", charset |-> "utf-8",
      payload |-> <<"A"," ","s","u","b","s","t","i","t","u","t","e"," ","h","a","s"," ","b","e","e","n"," ","r","e","q","u","e","s","t","e","d"," ","f","o","r"," ","y","o","u",".">>],
     [content_type |-> "text/html", charset |-> "utf-8",
      payload |-> <<"<","p",">","b","e","g","i","n","s"," ","S","u","n","d","a","y"," ","x"," ","a","t"," ","3",":","0","0"," ","a","n","d"," ","e","n","d","s"," ","a","t"," ","4",":","0","0","<","/","p",">">>],
     [content_type |-> "text/plain", charset |-> None,
      payload |-> <<" ","C","l","a","s","s"," ","b","e","g","i","n","s"," ","f","r","i","d","a","y"," ","x"," ","a","t"," ","1",":","0","0"," ","a","n","d"," ","e","n","d","s"," ","a","t"," ","2",":","0","0">>] >>]

MsgG ==
  [subject |-> Some(<<"G","e","o","m","e","t","r","y">>),
   multipart |-> FALSE,
   parts |-> <<
     [content_type |-> "text/plain", charset |-> "x-unknown",
      payload |-> <<"A"," ","s","u","b","s","t","i","t","u","t","e"," ","h","a","s"," ","b","e","e","n"," ","r","e","q","u","e","s","t","e","d"," ","f","o","r"," ","y","o","u","."," ","C","l","a","s","s"," ","b","e","g","i","n","s"," ","M","o","n","d","a","y"," ","J","a","n"," ","5"," ","a","t"," ","9",":","0","0","a","m"," ","a","n","d"," ","e","n","d","s"," ","a","t"," ","1","0",":","3","0","a","m",".">>] >>]

\* the messages the sender's mail is drawn from
Catalog == << MsgA, MsgB, MsgC, MsgD, MsgE, MsgF, MsgG >>

MsgIds == 1..Len(Catalog)

(***************************************************************************)
(* Decoding one message (main.py lines 118-135).                           *)
(***************************************************************************)
\* payload.decode(charset or "utf-8", errors="ignore"): an unknown codec
\* raises LookupError, undecodable bytes are dropped
DecodePayload(part) ==
  IF (IF part.charset = None THEN "utf-8" ELSE part.charset) \notin KnownCodecs
  THEN [error |-> "LookupError", text |-> << >>]
  ELSE [error |-> None, text |-> SelectSeq(part.payload, LAMBDA c : c # BadByte)]

\* the loop over msg.walk(): the text/plain parts are decoded and concatenated
RECURSIVE WalkParts(_, _, _)
WalkParts(parts, i, body) ==
  IF i > Len(parts) THEN [error |-> None, text |-> body]
  ELSE IF parts[i].content_type # "text/plain" THEN WalkParts(parts, i + 1, body)
  ELSE IF DecodePayload(parts[i]).error # None THEN DecodePayload(parts[i])
  ELSE WalkParts(parts, i + 1, body \o DecodePayload(parts[i]).text)

\* the body of a message, or the exception its decoding raises
BodyOf(msg) ==
  IF msg.multipart THEN WalkParts(msg.parts, 1, << >>)
  ELSE DecodePayload(msg.parts[1])

\* msg["subject"] or ""
SubjectOf(msg) == IF msg.subject = Absent THEN << >> ELSE msg.subject[1]

\* what lines 116-158 compute from the text of one message
ParseMessage(msg) ==
  LET body == BodyOf(msg)
  IN IF body.error # None
     THEN [error |-> body.error, genuine |-> FALSE, match |-> NO_MATCH, class_name |-> NO_CLASS]
     ELSE [error |-> None,
           genuine |-> Contains(body.text, MARKER),
           match |-> re_search(body.text),
           class_name |-> extract_class_from_subject(SubjectOf(msg))]

\* ParseMessage of every message of the catalog
Parsed == [m \in MsgIds |-> ParseMessage(Catalog[m])]

LIT_SPACE == <<" ">>
LIT_DASH == <<" ","-"," ">>

\* f"{day} {start_time} - {end_time}" (line 154)
SlotKey(match) == match.group1 \o LIT_SPACE \o match.group2 \o LIT_DASH \o match.group4

EmptyLists == [time_slots |-> << >>, class_names |-> << >>, days_only |-> << >>]

\* the class branch of the loop body (lines 158-160)
AppendClass(lists, p) ==
  IF p.class_name # NO_CLASS
  THEN [lists EXCEPT !.class_names = Append(@, p.class_name)]
  ELSE lists

\* the time-slot branch of the loop body (lines 149-155)
AppendSlot(lists, p) ==
  IF p.match # NO_MATCH
  THEN [lists EXCEPT !.time_slots = Append(@, SlotKey(p.match)),
                     !.days_only = Append(@, p.match.group1)]
  ELSE lists

\* the loop body without the test of line 138
ProcessMessage_IgnoresMarker(lists, p) == AppendClass(AppendSlot(lists, p), p)

\* the loop body with the class branch nested in the time-slot branch
ProcessMessage_ClassNeedsSlot(lists, p) ==
  IF ~p.genuine \/ p.match = NO_MATCH THEN lists
  ELSE AppendClass(AppendSlot(lists, p), p)

\* the loop body after decoding (lines 137-160)
ProcessMessage(lists, p) ==
  IF ~p.genuine THEN lists
  ELSE AppendClass(AppendSlot(lists, p), p)

\* the loop of lines 115-160 run over a batch (a sequence of catalog
\* indices) that decodes without error: the three lists of line 163
RECURSIVE ListsOf(_)
ListsOf(batch) ==
  IF batch = << >> THEN EmptyLists
  ELSE ProcessMessage(ListsOf(SubSeq(batch, 1, Len(batch) - 1)), Parsed[batch[Len(batch)]])

(***************************************************************************)
(* Counting (main.py lines 175-190).  A dict is a sequence of              *)
(* <<key, count>> pairs in insertion order.                                *)
(***************************************************************************)
Keys(d) == [i \in 1..Len(d) |-> d[i][1]]

HasKey(d, k) == \E i \in 1..Len(d) : d[i][1] = k

\* d.get(k, default)
DictGet(d, k, default) ==
  IF HasKey(d, k) THEN d[CHOOSE i \in 1..Len(d) : d[i][1] = k][2] ELSE default

\* collections.Counter(list): one entry per distinct element, in order of
\* first occurrence
RECURSIVE CountInto(_, _, _)
CountInto(d, list, i) ==
  IF i > Len(list) THEN d
  ELSE IF HasKey(d, list[i])
  THEN CountInto([j \in 1..Len(d) |-> IF d[j][1] = list[i] THEN <<d[j][1], d[j][2] + 1>> ELSE d[j]],
                 list, i + 1)
  ELSE CountInto(Append(d, <<list[i], 1>>), list, i + 1)

\* a count that opens a new entry for every element
Counter_NoMerge(list) == [i \in 1..Len(list) |-> <<list[i], 1>>]

Counter(list) == CountInto(<< >>, list, 1)

\* the zero-filling loops (lines 179-182 and 186-190)
ZeroFill(order, counts) == [i \in 1..Len(order) |-> <<order[i], DictGet(counts, order[i], 0)>>]

\* dict(Counter(slots)) (line 175)
time_slot_counts(lists) == Counter(lists.time_slots)

\* the class counts without the zero-filling loop
class_counts_Unfilled(lists) == Counter(lists.class_names)

\* lines 178-182
class_counts(lists) == ZeroFill(VALID_CLASSES, Counter(lists.class_names))

\* the day counts without the zero-filling loop
day_counts_Unfilled(lists) == Counter(lists.days_only)

\* lines 185-190
day_counts(lists) == ZeroFill(WEEKDAY_ORDER, Counter(lists.days_only))

\* the leading slice, data[0].split()[:200]
LastN_Leading(ids, n) == IF Len(ids) <= n THEN ids ELSE SubSeq(ids, 1, n)

\* data[0].split()[-200:]
LastN(ids, n) == IF Len(ids) <= n THEN ids ELSE SubSeq(ids, Len(ids) - n + 1, Len(ids))

(***************************************************************************)
(* The running service.  The three endpoints are plain  def  handlers, so  *)
(* the server runs each request on a worker thread: the callers below are  *)
(* those threads, interleaved statement by statement.                      *)
(***************************************************************************)
Callers == {"c1", "c2"}

Endpoints == {"sub_requests", "class_breakdown", "sub_requests_by_day"}

\* the mailbox holds at most MaxMail messages of the sender
MaxMail == 2

\* the clock stops at MaxNow hours
MaxNow == 25

\* the amounts of time that pass in one step of the clock
TickSteps == {CACHE_INTERVAL, CACHE_INTERVAL + 1}

\* the value of _cached_time while it is None
NO_TIME == -1

VARIABLES
  mailbox,              \* the sender's messages in the inbox, oldest first (catalog indices)
  now,                  \* datetime.now(), in hours
  cached_time_slots,    \* _cached_time_slots
  cached_class_counts,  \* _cached_class_counts
  cached_days,          \* _cached_days
  cached_time,          \* _cached_time
  pc,                   \* where each caller is
  endpoint,             \* the endpoint each caller is serving
  now_local,            \* ensure_cache's local  now
  seen_time,            \* the _cached_time that line 199 read
  conn,                 \* the caller's IMAP connection: "none", "open" or "closed"
  email_ids,            \* email_ids
  pos,                  \* the position of the loop of line 115 in email_ids
  lists,                \* time_slots, class_names, days_only
  result,               \* Absent, or Some(the content the endpoint returned)
  exc,                  \* the exception the call ended with
  fetches,              \* how many times this call invoked fetch_last_200_sub_requests
  writes,               \* the cache variables this call has assigned
  probe                 \* the input and the result of a helper that is run on its own

cache == <<cached_time_slots, cached_class_counts, cached_days, cached_time>>

locals == <<email_ids, pos, lists>>

vars == <<mailbox, now, cached_time_slots, cached_class_counts, cached_days, cached_time,
          pc, endpoint, now_local, seen_time, conn, email_ids, pos, lists, result, exc,
          fetches, writes, probe>>

\* no helper is being run on its own
NoProbe == [done |-> FALSE]

\* the service before its first request (lines 76-79)
Started ==
  /\ now = 0
  /\ cached_time_slots = Absent
  /\ cached_class_counts = Absent
  /\ cached_days = Absent
  /\ cached_time = NO_TIME
  /\ pc = [c \in Callers |-> "idle"]
  /\ endpoint = [c \in Callers |-> None]
  /\ now_local = [c \in Callers |-> 0]
  /\ seen_time = [c \in Callers |-> NO_TIME]
  /\ conn = [c \in Callers |-> "none"]
  /\ email_ids = [c \in Callers |-> << >>]
  /\ pos = [c \in Callers |-> 1]
  /\ lists = [c \in Callers |-> EmptyLists]
  /\ result = [c \in Callers |-> Absent]
  /\ exc = [c \in Callers |-> None]
  /\ fetches = [c \in Callers |-> 0]
  /\ writes = [c \in Callers |-> {}]

\* the service before its first request, with no mail of the sender yet
Quiet == mailbox = << >> /\ Started

Init == probe = NoProbe /\ Quiet

\* line 199 with >= for >
IsStale_AtBoundary(t, n) == t = NO_TIME \/ n - t >= CACHE_INTERVAL

\* the condition of line 199
IsStale(t, n) == t = NO_TIME \/ n - t > CACHE_INTERVAL

\* a caller that is not inside a request
Resting(c) == pc[c] \in {"idle", "returned", "raised"}

(***************************************************************************)
(* The environment: mail arrives, time passes.                             *)
(***************************************************************************)
Deliver(m) ==
  /\ Len(mailbox) < MaxMail
  /\ mailbox' = Append(mailbox, m)
  /\ UNCHANGED <<probe, now, cache, pc, endpoint, now_local, seen_time, conn, locals, result, exc,
                 fetches, writes>>

Tick(d) ==
  /\ now + d <= MaxNow
  /\ now' = now + d
  /\ UNCHANGED <<probe, mailbox, cache, pc, endpoint, now_local, seen_time, conn, locals, result, exc,
                 fetches, writes>>

(***************************************************************************)
(* A request (lines 206-221) enters ensure_cache, which reads the clock    *)
(* (line 198).                                                             *)
(***************************************************************************)
Call(c, ep) ==
  /\ Resting(c)
  /\ pc' = [pc EXCEPT ![c] = "l199"]
  /\ endpoint' = [endpoint EXCEPT ![c] = ep]
  /\ now_local' = [now_local EXCEPT ![c] = now]
  /\ conn' = [conn EXCEPT ![c] = "none"]
  /\ result' = [result EXCEPT ![c] = Absent]
  /\ exc' = [exc EXCEPT ![c] = None]
  /\ UNCHANGED <<probe, mailbox, now, cache, seen_time, locals, fetches, writes>>

\* line 199: refresh_cache, and with it the fetch, is entered when the cache is stale
CheckCache(c) ==
  /\ pc[c] = "l199"
  /\ seen_time' = [seen_time EXCEPT ![c] = cached_time]
  /\ IF IsStale(cached_time, now_local[c])
     THEN /\ pc' = [pc EXCEPT ![c] = "l102"]
          /\ fetches' = [fetches EXCEPT ![c] = @ + 1]
     ELSE /\ pc' = [pc EXCEPT ![c] = "return"]
          /\ UNCHANGED fetches
  /\ UNCHANGED <<probe, mailbox, now, cache, endpoint, now_local, conn, locals, result, exc, writes>>

\* an exception leaves fetch_last_200_sub_requests, refresh_cache, ensure_cache
\* and the endpoint; no handler runs on the way
Raise(c, e) ==
  /\ pc' = [pc EXCEPT ![c] = "raised"]
  /\ exc' = [exc EXCEPT ![c] = e]
  /\ email_ids' = [email_ids EXCEPT ![c] = << >>]
  /\ pos' = [pos EXCEPT ![c] = 1]
  /\ lists' = [lists EXCEPT ![c] = EmptyLists]
  /\ endpoint' = [endpoint EXCEPT ![c] = None]
  /\ now_local' = [now_local EXCEPT ![c] = 0]
  /\ seen_time' = [seen_time EXCEPT ![c] = NO_TIME]
  /\ fetches' = [fetches EXCEPT ![c] = 0]
  /\ writes' = [writes EXCEPT ![c] = {}]
  /\ UNCHANGED <<probe, mailbox, now, cache, conn, result>>

(***************************************************************************)
(* fetch_last_200_sub_requests (lines 101-163).                            *)
(***************************************************************************)
\* line 102
Connect(c) ==
  /\ pc[c] = "l102"
  /\ pc' = [pc EXCEPT ![c] = "l103"]
  /\ conn' = [conn EXCEPT ![c] = "open"]
  /\ UNCHANGED <<probe, mailbox, now, cache, endpoint, now_local, seen_time, locals, result, exc,
                 fetches, writes>>

ConnectFails(c) ==
  /\ pc[c] = "l102"
  /\ Raise(c, "ConnectError")

\* line 103
Login(c) ==
  /\ pc[c] = "l103"
  /\ pc' = [pc EXCEPT ![c] = "l104"]
  /\ UNCHANGED <<probe, mailbox, now, cache, endpoint, now_local, seen_time, conn, locals, result,
                 exc, fetches, writes>>

LoginFails(c) ==
  /\ pc[c] = "l103"
  /\ Raise(c, "LoginError")

\* line 104
Select(c) ==
  /\ pc[c] = "l104"
  /\ pc' = [pc EXCEPT ![c] = "l106"]
  /\ UNCHANGED <<probe, mailbox, now, cache, endpoint, now_local, seen_time, conn, locals, result,
                 exc, fetches, writes>>

SelectFails(c) ==
  /\ pc[c] = "l104"
  /\ Raise(c, "SelectError")

\* lines 106-113: the search returns the sequence numbers of the sender's messages
Search(c) ==
  /\ pc[c] = "l106"
  /\ pc' = [pc EXCEPT ![c] = "l115"]
  /\ email_ids' = [email_ids EXCEPT ![c] = LastN([i \in 1..Len(mailbox) |-> i], LAST_N)]
  /\ pos' = [pos EXCEPT ![c] = 1]
  /\ lists' = [lists EXCEPT ![c] = EmptyLists]
  /\ UNCHANGED <<probe, mailbox, now, cache, endpoint, now_local, seen_time, conn, result, exc,
                 fetches, writes>>

SearchFails(c) ==
  /\ pc[c] = "l106"
  /\ Raise(c, "SearchError")

\* one iteration of the loop of lines 115-160
FetchMessage(c) ==
  /\ pc[c] = "l115"
  /\ pos[c] <= Len(email_ids[c])
  /\ LET p == Parsed[mailbox[email_ids[c][pos[c]]]]
     IN IF p.error # None
        THEN Raise(c, p.error)
        ELSE /\ lists' = [lists EXCEPT ![c] = ProcessMessage(@, p)]
             /\ pos' = [pos EXCEPT ![c] = @ + 1]
             /\ UNCHANGED <<probe, mailbox, now, cache, pc, endpoint, now_local, seen_time, conn,
                            email_ids, result, exc, fetches, writes>>

\* mail.fetch raises, and what was collected so far is stored on the way out
FetchFails_StoresPartial(c) ==
  /\ pc[c] = "l115"
  /\ pos[c] <= Len(email_ids[c])
  /\ cached_time_slots' = Some(time_slot_counts(lists[c]))
  /\ pc' = [pc EXCEPT ![c] = "raised"]
  /\ exc' = [exc EXCEPT ![c] = "FetchError"]
  /\ email_ids' = [email_ids EXCEPT ![c] = << >>]
  /\ pos' = [pos EXCEPT ![c] = 1]
  /\ lists' = [lists EXCEPT ![c] = EmptyLists]
  /\ endpoint' = [endpoint EXCEPT ![c] = None]
  /\ now_local' = [now_local EXCEPT ![c] = 0]
  /\ seen_time' = [seen_time EXCEPT ![c] = NO_TIME]
  /\ fetches' = [fetches EXCEPT ![c] = 0]
  /\ writes' = [writes EXCEPT ![c] = {}]
  /\ UNCHANGED <<probe, mailbox, now, cached_class_counts, cached_days, cached_time, conn, result>>

\* mail.fetch raises (line 116)
FetchFails(c) ==
  /\ pc[c] = "l115"
  /\ pos[c] <= Len(email_ids[c])
  /\ Raise(c, "FetchError")

\* lines 162-163
Logout(c) ==
  /\ pc[c] = "l115"
  /\ pos[c] > Len(email_ids[c])
  /\ pc' = [pc EXCEPT ![c] = "l175"]
  /\ conn' = [conn EXCEPT ![c] = "closed"]
  /\ UNCHANGED <<probe, mailbox, now, cache, endpoint, now_local, seen_time, locals, result, exc,
                 fetches, writes>>

(***************************************************************************)
(* refresh_cache (lines 169-192): four assignments to the globals.         *)
(***************************************************************************)
\* a refresh that stamps the cache together with its first assignment
StoreTimeSlots_StampsFirst(c) ==
  /\ pc[c] = "l175"
  /\ cached_time_slots' = Some(time_slot_counts(lists[c]))
  /\ cached_time' = now
  /\ pc' = [pc EXCEPT ![c] = "l182"]
  /\ writes' = [writes EXCEPT ![c] = @ \cup {"time_slots"}]
  /\ UNCHANGED <<probe, mailbox, now, cached_class_counts, cached_days, endpoint,
                 now_local, seen_time, conn, locals, result, exc, fetches>>

\* line 175
StoreTimeSlots(c) ==
  /\ pc[c] = "l175"
  /\ cached_time_slots' = Some(time_slot_counts(lists[c]))
  /\ pc' = [pc EXCEPT ![c] = "l182"]
  /\ writes' = [writes EXCEPT ![c] = @ \cup {"time_slots"}]
  /\ UNCHANGED <<probe, mailbox, now, cached_class_counts, cached_days, cached_time, endpoint,
                 now_local, seen_time, conn, locals, result, exc, fetches>>

\* lines 178-182
StoreClassCounts(c) ==
  /\ pc[c] = "l182"
  /\ cached_class_counts' = Some(class_counts(lists[c]))
  /\ pc' = [pc EXCEPT ![c] = "l190"]
  /\ writes' = [writes EXCEPT ![c] = @ \cup {"class_counts"}]
  /\ UNCHANGED <<probe, mailbox, now, cached_time_slots, cached_days, cached_time, endpoint,
                 now_local, seen_time, conn, locals, result, exc, fetches>>

\* lines 185-190
StoreDays(c) ==
  /\ pc[c] = "l190"
  /\ cached_days' = Some(day_counts(lists[c]))
  /\ pc' = [pc EXCEPT ![c] = "l192"]
  /\ writes' = [writes EXCEPT ![c] = @ \cup {"days"}]
  /\ UNCHANGED <<probe, mailbox, now, cached_time_slots, cached_class_counts, cached_time, endpoint,
                 now_local, seen_time, conn, locals, result, exc, fetches>>

\* line 192 storing the time read at line 198 instead of reading the clock
StoreTime_UsesCallTime(c) ==
  /\ pc[c] = "l192"
  /\ cached_time' = now_local[c]
  /\ pc' = [pc EXCEPT ![c] = "return"]
  /\ writes' = [writes EXCEPT ![c] = @ \cup {"time"}]
  /\ UNCHANGED <<probe, mailbox, now, cached_time_slots, cached_class_counts, cached_days,
                 endpoint, now_local, seen_time, conn, locals, result, exc, fetches>>

\* line 192
StoreTime(c) ==
  /\ pc[c] = "l192"
  /\ cached_time' = now
  /\ pc' = [pc EXCEPT ![c] = "return"]
  /\ writes' = [writes EXCEPT ![c] = @ \cup {"time"}]
  /\ UNCHANGED <<probe, mailbox, now, cached_time_slots, cached_class_counts, cached_days, endpoint,
                 now_local, seen_time, conn, locals, result, exc, fetches>>

(***************************************************************************)
(* The endpoints (lines 206-221) return the global they serve.             *)
(***************************************************************************)
Served(ep) ==
  CASE ep = "sub_requests" -> cached_time_slots
    [] ep = "class_breakdown" -> cached_class_counts
    [] ep = "sub_requests_by_day" -> cached_days

Return(c) ==
  /\ pc[c] = "return"
  /\ result' = [result EXCEPT ![c] = Some(Served(endpoint[c]))]
  /\ pc' = [pc EXCEPT ![c] = "returned"]
  /\ email_ids' = [email_ids EXCEPT ![c] = << >>]
  /\ pos' = [pos EXCEPT ![c] = 1]
  /\ lists' = [lists EXCEPT ![c] = EmptyLists]
  /\ endpoint' = [endpoint EXCEPT ![c] = None]
  /\ now_local' = [now_local EXCEPT ![c] = 0]
  /\ seen_time' = [seen_time EXCEPT ![c] = NO_TIME]
  /\ fetches' = [fetches EXCEPT ![c] = 0]
  /\ writes' = [writes EXCEPT ![c] = {}]
  /\ UNCHANGED <<probe, mailbox, now, cache, conn, exc>>

\* the steps of one caller
Step(c) ==
  \/ \E ep \in Endpoints : Call(c, ep)
  \/ CheckCache(c)
  \/ Connect(c) \/ ConnectFails(c)
  \/ Login(c) \/ LoginFails(c)
  \/ Select(c) \/ SelectFails(c)
  \/ Search(c) \/ SearchFails(c)
  \/ FetchMessage(c) \/ FetchFails(c)
  \/ Logout(c)
  \/ StoreTimeSlots(c) \/ StoreClassCounts(c) \/ StoreDays(c) \/ StoreTime(c)
  \/ Return(c)

\* the mail that arrives while requests run concurrently: the catalog in order
Stream(i) == ((i - 1) % Len(Catalog)) + 1

(***************************************************************************)
(* Spec: concurrent requests.                                              *)
(***************************************************************************)
Next ==
  \/ Deliver(Stream(Len(mailbox) + 1))
  \/ \E d \in TickSteps : Tick(d)
  \/ \E c \in Callers : Step(c)

Spec == Init /\ [][Next]_vars

(***************************************************************************)
(* SpecSeq: one request at a time, any mail.                               *)
(***************************************************************************)
NextSeq ==
  \/ \E m \in MsgIds : Deliver(m)
  \/ \E d \in TickSteps : Tick(d)
  \/ Step("c1")

SpecSeq == Init /\ [][NextSeq]_vars


(***************************************************************************)
(* SpecBig: one request at a time on an inbox that already holds none,     *)
(* just under 200, 200 or just over 200 messages of the sender.            *)
(***************************************************************************)
BacklogSizes == {0, LAST_N - 1, LAST_N, LAST_N + 1}

\* an inbox of n decodable messages: catalog messages 1 and 4 in turn
Backlog(n) == [i \in 1..n |-> IF i % 2 = 1 THEN 1 ELSE 4]

InitBig ==
  /\ probe = NoProbe
  /\ mailbox \in {Backlog(n) : n \in BacklogSizes}
  /\ Started

NextBig ==
  \/ \E d \in TickSteps : Tick(d)
  \/ Step("c1")

SpecBig == InitBig /\ [][NextBig]_vars

(***************************************************************************)
(* SpecClass: extract_class_from_subject run on its own, on the subjects   *)
(* made of two pieces.                                                     *)
(***************************************************************************)
SubjectPieces ==
  {<< >>} \cup {VALID_CLASSES[i] : i \in 1..Len(VALID_CLASSES)} \cup
  { <<"S","u","b",":"," ">>,
    <<" ","c","l","a","s","s">>,
    <<"0">>,
    <<"A","L","G","E","B","R","A"," ","2">>,
    <<"p","r","e","c","a","l","c","u","l","u","s">>,
    <<"g","E","O","M","E","T","R","Y">>,
    <<"M","a","t","h"," "," ","L","e","v","e","l"," ","1">>,
    <<"A","l","g","e","b","r","a">> }

Subjects == {a \o b : a \in SubjectPieces, b \in SubjectPieces}

InitClass ==
  /\ probe \in {[done |-> FALSE, subject |-> s] : s \in Subjects}
  /\ Quiet

\* one call of extract_class_from_subject (lines 85-95)
ExtractClass ==
  /\ ~probe.done
  /\ probe' = [done |-> TRUE, subject |-> probe.subject,
               class_name |-> extract_class_from_subject(probe.subject)]
  /\ UNCHANGED <<mailbox, now, cache, pc, endpoint, now_local, seen_time, conn, locals,
                 result, exc, fetches, writes>>

NextClass == ExtractClass

SpecClass == InitClass /\ [][NextClass]_vars

(***************************************************************************)
(* SpecSlot: the time-slot pattern run on its own, on bodies put together  *)
(* from a day token, two time tokens, two am/pm markers and a shape.       *)
(***************************************************************************)
DayTokens == { <<"M","o","n","d","a","y">>, <<"f","r","i","d","a","y">>, <<"S","a","t">> }

StartTokens == { <<"9",":","0","0">>, <<"1","2",":","3","0">> }

EndTokens == { <<"1","0",":","3","0">>, <<"1",":","0","5">> }

\* what may follow a time token: nothing, or a marker with or without a space
Markers == { <<>>, <<"a","m">>, <<"p","m">>, <<" ","P","M">>, <<" ","a","m">> }

\* "dated": a date stands between the day and " at "; "bare": " at " follows
\* the day at once; "starts": the sentence says "starts" for "begins"
Shapes == {"dated", "bare", "starts"}

SlotParts ==
  [day : DayTokens, start : StartTokens, m1 : Markers, end : EndTokens, m2 : Markers,
   shape : Shapes]

TXT_CLASS == <<"C","l","a","s","s"," ">>
TXT_BEGINS == <<"b","e","g","i","n","s"," ">>
TXT_STARTS == <<"s","t","a","r","t","s"," ">>
TXT_DATE == <<" ","J","a","n"," ","5">>
TXT_AT == <<" ","a","t"," ">>
TXT_ENDS == <<" ","a","n","d"," ","e","n","d","s"," ","a","t"," ">>
TXT_STOP == <<".">>

\* the body text of a notification with the given parts
BodyFrom(parts) ==
  TXT_CLASS \o (IF parts.shape = "starts" THEN TXT_STARTS ELSE TXT_BEGINS) \o parts.day
    \o (IF parts.shape = "bare" THEN << >> ELSE TXT_DATE) \o TXT_AT
    \o parts.start \o parts.m1 \o TXT_ENDS \o parts.end \o parts.m2 \o TXT_STOP

InitSlot ==
  /\ probe \in {[done |-> FALSE, parts |-> x, body |-> BodyFrom(x)] : x \in SlotParts}
  /\ Quiet

\* one search of the pattern and the key of line 154
ExtractSlot ==
  /\ ~probe.done
  /\ probe' = [done |-> TRUE, parts |-> probe.parts, body |-> probe.body,
               match |-> re_search(probe.body),
               key |-> IF re_search(probe.body) = NO_MATCH THEN << >>
                       ELSE SlotKey(re_search(probe.body))]
  /\ UNCHANGED <<mailbox, now, cache, pc, endpoint, now_local, seen_time, conn, locals,
                 result, exc, fetches, writes>>

NextSlot == ExtractSlot

SpecSlot == InitSlot /\ [][NextSlot]_vars

(***************************************************************************)
(* Properties.                                                             *)
(***************************************************************************)
\* a caller inside refresh_cache (lines 172-192)
InRefresh(c) ==
  pc[c] \in {"l102", "l103", "l104", "l106", "l115", "l175", "l182", "l190", "l192"}

\* a caller between the first and the last assignment of refresh_cache
MidStore(c) == pc[c] \in {"l182", "l190", "l192"}

\* the claim's FRESH: a timestamp exists and its age is at most 24 hours
Fresh(t, n) == t # NO_TIME /\ n - t <= CACHE_INTERVAL

\* the lists a fetch returns for the first k messages of the mailbox
PrefixLists(k) == ListsOf(SubSeq(mailbox, 1, k))

\* the first k messages of the mailbox can be fetched without a decoding error
Decodable(k) == \A i \in 1..k : Parsed[mailbox[i]].error = None

\* C1: when several callers observe the cache as stale, at most one of them
\* is inside refresh_cache (and so at most one fetch is in flight) at a time.
C1_SingleFlight == Cardinality({c \in Callers : InRefresh(c)}) <= 1

\* C2: whenever no refresh is between its first and its last assignment, the
\* three stored distributions are all absent or were all computed from one
\* fetched batch.
C2_SnapshotFromOneBatch ==
  (\A c \in Callers : ~MidStore(c)) =>
     \/ cached_time_slots = Absent /\ cached_class_counts = Absent /\ cached_days = Absent
     \/ \E k \in 0..Len(mailbox) :
          /\ Decodable(k)
          /\ cached_time_slots = Some(time_slot_counts(PrefixLists(k)))
          /\ cached_class_counts = Some(class_counts(PrefixLists(k)))
          /\ cached_days = Some(day_counts(PrefixLists(k)))

\* C3: a call that finds the cache fresh at line 199 (age at most 24 hours,
\* 24 hours exactly included) goes straight to the return of its endpoint: it
\* invokes no fetch and assigns none of the four cache variables.
C3_FreshCallDoesNotFetch ==
  \A c \in Callers :
     (pc[c] \notin {"idle", "returned", "raised", "l199"} /\ Fresh(seen_time[c], now_local[c]))
        => pc[c] = "return" /\ fetches[c] = 0 /\ writes[c] = {}

\* C3 witness: a call that found the cache exactly 24 hours old is returning
\* without having fetched.
C3_Witness ==
  \E c \in Callers :
     /\ pc[c] = "return"
     /\ seen_time[c] # NO_TIME
     /\ now_local[c] - seen_time[c] = CACHE_INTERVAL
     /\ fetches[c] = 0

\* C4: a step in which a call ends with an error raised by the fetch changes
\* none of the four cache variables, the call has assigned none of them, the
\* caller gets the error and no content, and the cache is still stale unless
\* another call has replaced the timestamp this call saw.
C4_FailedRefreshKeepsCache ==
  [][\A c \in Callers :
        (pc[c] # "raised" /\ pc'[c] = "raised") =>
           /\ cache' = cache
           /\ writes[c] = {}
           /\ exc'[c] # None
           /\ result'[c] = Absent
           /\ (cached_time' = seen_time[c] => IsStale(cached_time', now'))]_vars

\* C4 witness: a fetch failed on a message while an older snapshot was stored,
\* and that snapshot is still there and still stale.
C4_Witness ==
  \E c \in Callers :
     /\ pc[c] = "raised"
     /\ exc[c] = "FetchError"
     /\ cached_time # NO_TIME
     /\ cached_days # Absent
     /\ IsStale(cached_time, now)

\* C5: a message that cannot be decoded never ends the call with an error.
C5_DecodeFailureDoesNotAbort ==
  \A c \in Callers : pc[c] = "raised" => exc[c] # "LookupError"

\* the messages of the batch a caller is fetching, as catalog indices
BatchOf(c) == [i \in 1..Len(email_ids[c]) |-> mailbox[email_ids[c][i]]]

\* a sequence without its i-th element
RemoveAt(s, i) == SubSeq(s, 1, i - 1) \o SubSeq(s, i + 1, Len(s))

\* a call has run refresh_cache to its end and is about to return
Refreshed(c) ==
  pc[c] = "return" /\ writes[c] = {"time_slots", "class_counts", "days", "time"}

\* the decoded body of catalog message m contains the marker phrase
HasMarker(m) == Contains(BodyOf(Catalog[m]).text, MARKER)

\* the positions of the batch whose message is genuine and has a time slot
SlotPositions(c) ==
  {i \in 1..Len(email_ids[c]) : HasMarker(BatchOf(c)[i]) /\ Parsed[BatchOf(c)[i]].match # NO_MATCH}

\* the positions of the batch whose message is genuine and has a class label
ClassPositions(c) ==
  {i \in 1..Len(email_ids[c]) :
      HasMarker(BatchOf(c)[i]) /\ Parsed[BatchOf(c)[i]].class_name # NO_CLASS}

\* "{day} {startTime} - {endTime}" of a match
KeyText(match) == match.group1 \o <<" ">> \o match.group2 \o <<" ", "-", " ">> \o match.group4

\* C6: after a refresh, removing from the batch any message whose body lacks
\* the marker phrase gives the same three distributions as the ones stored.
C6_NonGenuineAddsNothing ==
  \A c \in Callers :
     Refreshed(c) =>
        \A i \in 1..Len(email_ids[c]) :
           ~HasMarker(BatchOf(c)[i]) =>
              /\ cached_time_slots = Some(time_slot_counts(ListsOf(RemoveAt(BatchOf(c), i))))
              /\ cached_class_counts = Some(class_counts(ListsOf(RemoveAt(BatchOf(c), i))))
              /\ cached_days = Some(day_counts(ListsOf(RemoveAt(BatchOf(c), i))))

\* C6 witness: a refresh over a batch holding a message without the marker
\* phrase whose subject names a class and whose body has a time slot, next to
\* a genuine message.
C6_Witness ==
  \E c \in Callers :
     /\ Refreshed(c)
     /\ \E i, j \in 1..Len(email_ids[c]) :
           /\ ~HasMarker(BatchOf(c)[i])
           /\ Parsed[BatchOf(c)[i]].match # NO_MATCH
           /\ Parsed[BatchOf(c)[i]].class_name # NO_CLASS
           /\ HasMarker(BatchOf(c)[j])

\* C7: after a refresh the stored class distribution has the 11 catalog
\* classes as its keys, in catalog order, and each count is the number of
\* genuine messages of the batch whose class label is that class.
C7_ClassDistribution ==
  \A c \in Callers :
     Refreshed(c) =>
        /\ cached_class_counts # Absent
        /\ Len(cached_class_counts[1]) = 11
        /\ Keys(cached_class_counts[1]) = VALID_CLASSES
        /\ \A j \in 1..Len(cached_class_counts[1]) :
              cached_class_counts[1][j][2] =
                 Cardinality({i \in ClassPositions(c) :
                                 Parsed[BatchOf(c)[i]].class_name = VALID_CLASSES[j]})

\* C7 witness: a refresh stored a class distribution with a counted class and
\* a class with count 0.
C7_Witness ==
  \E c \in Callers :
     /\ Refreshed(c)
     /\ ClassPositions(c) # {}
     /\ \E j, k \in 1..Len(cached_class_counts[1]) :
           cached_class_counts[1][j][2] >= 1 /\ cached_class_counts[1][k][2] = 0

\* C8: after a refresh the stored day-only distribution has the 7 weekdays
\* Monday..Sunday as its keys, in that order, and each count is the number of
\* genuine messages of the batch whose day token equals that weekday.
C8_DayDistribution ==
  \A c \in Callers :
     Refreshed(c) =>
        /\ cached_days # Absent
        /\ Len(cached_days[1]) = 7
        /\ Keys(cached_days[1]) = WEEKDAY_ORDER
        /\ \A j \in 1..Len(cached_days[1]) :
              cached_days[1][j][2] =
                 Cardinality({i \in SlotPositions(c) :
                                 Parsed[BatchOf(c)[i]].match.group1 = WEEKDAY_ORDER[j]})

\* C8 witness: a refresh over a batch with a message whose day token is a
\* weekday and a message whose day token is no weekday as written.
C8_Witness ==
  \E c \in Callers :
     /\ Refreshed(c)
     /\ \E i, j \in SlotPositions(c) :
           /\ \E k \in 1..Len(WEEKDAY_ORDER) :
                 Parsed[BatchOf(c)[i]].match.group1 = WEEKDAY_ORDER[k]
           /\ \A k \in 1..Len(WEEKDAY_ORDER) :
                 Parsed[BatchOf(c)[j]].match.group1 # WEEKDAY_ORDER[k]

\* C9: after a refresh the keys of the stored time-slot distribution are the
\* distinct "{day} {start} - {end}" strings of the genuine messages of the
\* batch, each once, each with its number of occurrences, which is at least
\* 1; an empty batch gives an empty mapping.
C9_TimeSlotDistribution ==
  \A c \in Callers :
     Refreshed(c) =>
        /\ cached_time_slots # Absent
        /\ {cached_time_slots[1][j][1] : j \in 1..Len(cached_time_slots[1])} =
              {KeyText(Parsed[BatchOf(c)[i]].match) : i \in SlotPositions(c)}
        /\ \A j, k \in 1..Len(cached_time_slots[1]) :
              cached_time_slots[1][j][1] = cached_time_slots[1][k][1] => j = k
        /\ \A j \in 1..Len(cached_time_slots[1]) :
              /\ cached_time_slots[1][j][2] >= 1
              /\ cached_time_slots[1][j][2] =
                    Cardinality({i \in SlotPositions(c) :
                                    KeyText(Parsed[BatchOf(c)[i]].match) = cached_time_slots[1][j][1]})
        /\ (email_ids[c] = << >> => cached_time_slots[1] = << >>)

\* C9 witness: a refresh stored a time slot that two messages of the batch share.
C9_Witness ==
  \E c \in Callers :
     /\ Refreshed(c)
     /\ \E j \in 1..Len(cached_time_slots[1]) : cached_time_slots[1][j][2] = 2

\* C10: when the fetch returns, class_names has one entry for every genuine
\* message with a class label, with or without a time slot, and time_slots
\* and days_only have one entry for every genuine message with a time slot,
\* with or without a class label.
C10_FieldsIndependent ==
  \A c \in Callers :
     pc[c] = "l175" =>
        /\ Len(lists[c].class_names) = Cardinality(ClassPositions(c))
        /\ Len(lists[c].time_slots) = Cardinality(SlotPositions(c))
        /\ Len(lists[c].days_only) = Cardinality(SlotPositions(c))

\* C10 witness: the fetch returned for a batch with a genuine message that has
\* a class label and no time slot and one that has a time slot and no label.
C10_Witness ==
  \E c \in Callers :
     /\ pc[c] = "l175"
     /\ \E i \in ClassPositions(c) : i \notin SlotPositions(c)
     /\ \E j \in SlotPositions(c) : j \notin ClassPositions(c)

\* a class name occurs in a subject, letter case ignored
OccursIgnoringCase(name, subject) ==
  \E p \in 1..Len(subject) :
     \A k \in 1..Len(name) : LowerChar(Char(subject, p + k - 1)) = LowerChar(name[k])

\* the catalog positions of the classes that occur in a subject
ClassHits(subject) ==
  {i \in 1..Len(VALID_CLASSES) : OccursIgnoringCase(VALID_CLASSES[i], subject)}

\* C11: extract_class_from_subject returns the catalog class earliest in
\* catalog order among those whose name occurs in the subject, letter case
\* ignored, and none when no class occurs or the subject is empty.
C11_FirstCatalogMatch ==
  probe.done =>
     IF ClassHits(probe.subject) = {}
     THEN probe.class_name = NO_CLASS
     ELSE probe.class_name =
             VALID_CLASSES[CHOOSE i \in ClassHits(probe.subject) :
                              \A j \in ClassHits(probe.subject) : i <= j]

\* C11 witness: a subject in which three catalog names occur (one of them
\* inside another) has been given the earliest of them.
C11_Witness ==
  /\ probe.done
  /\ Cardinality(ClassHits(probe.subject)) >= 3
  /\ \E i \in ClassHits(probe.subject) :
        /\ probe.class_name = VALID_CLASSES[i]
        /\ \A j \in ClassHits(probe.subject) : i <= j

\* the distribution an endpoint serves, computed from a batch
ServedFrom(ep, batch) ==
  CASE ep = "sub_requests" -> time_slot_counts(ListsOf(batch))
    [] ep = "class_breakdown" -> class_counts(ListsOf(batch))
    [] ep = "sub_requests_by_day" -> day_counts(ListsOf(batch))

\* C12: with one request at a time, a call that finds the cache stale at line
\* 199 (no timestamp, or an age over 24 hours) enters the fetch once; the step
\* that ends its refresh leaves the three distributions computed from its
\* batch and the current time stored, so the cache is fresh; and its endpoint
\* returns the distribution computed from that batch.
C12_StaleCallRefreshesOnce ==
  [][\A c \in Callers :
        /\ (/\ pc[c] = "l199" /\ pc'[c] # "l199"
            /\ (cached_time = NO_TIME \/ now_local[c] - cached_time > CACHE_INTERVAL))
              => pc'[c] = "l102" /\ fetches'[c] = 1
        /\ (pc[c] = "l192" /\ pc'[c] = "return") =>
              /\ fetches[c] = 1
              /\ writes'[c] = {"time_slots", "class_counts", "days", "time"}
              /\ cached_time_slots' = Some(time_slot_counts(ListsOf(BatchOf(c))))
              /\ cached_class_counts' = Some(class_counts(ListsOf(BatchOf(c))))
              /\ cached_days' = Some(day_counts(ListsOf(BatchOf(c))))
              /\ cached_time' = now'
              /\ Fresh(cached_time', now')
        /\ (pc[c] = "return" /\ pc'[c] = "returned" /\ fetches[c] = 1) =>
              result'[c] = Some(Some(ServedFrom(endpoint[c], BatchOf(c))))]_vars

\* C12 witness: a call that found a snapshot older than 24 hours has run the
\* refresh over a batch that is not empty and the cache is fresh.
C12_Witness ==
  \E c \in Callers :
     /\ Refreshed(c)
     /\ seen_time[c] # NO_TIME
     /\ fetches[c] = 1
     /\ email_ids[c] # << >>
     /\ Fresh(cached_time, now)

\* the errors of the mailbox operations: connect, login, select, search, fetch
MailboxErrors == {"ConnectError", "LoginError", "SelectError", "SearchError", "FetchError"}

\* C13: with one request at a time, the cache is stale after a failed
\* refresh, every call that finds it stale enters the fetch again and opens a
\* new connection, and a call ends with an error only when one of the mailbox
\* operations fails, so that the first call the mailbox serves without
\* failing refreshes the cache.
C13_RetryUntilSuccess ==
  [][\A c \in Callers :
        /\ pc'[c] = "raised" => IsStale(cached_time', now')
        /\ (pc[c] = "l199" /\ pc'[c] # "l199" /\ IsStale(cached_time, now_local[c]))
              => pc'[c] = "l102"
        /\ (pc[c] = "l102" /\ pc'[c] = "l103") => conn[c] = "none" /\ conn'[c] = "open"
        /\ (pc[c] # "raised" /\ pc'[c] = "raised") => exc'[c] \in MailboxErrors]_vars

\* the smaller of two numbers
Min(a, b) == IF a <= b THEN a ELSE b

\* the last min(n, 200) of the identifiers 1..n, oldest first
Trailing(n) == [i \in 1..Min(n, 200) |-> n - Min(n, 200) + i]

\* C14: the search step leaves in email_ids the last min(n, 200) of the n
\* identifiers, oldest first; each iteration processes the identifier at the
\* loop position and moves on by one; the loop ends after min(n, 200)
\* iterations with the lists of exactly those messages; and a refresh over an
\* inbox with no message of the sender ends with three empty lists, an empty
\* time-slot distribution and all-zero class and day-only distributions.
C14_LastTwoHundred ==
  [][\A c \in Callers :
        /\ (pc[c] = "l106" /\ pc'[c] = "l115") => email_ids'[c] = Trailing(Len(mailbox))
        /\ (pc[c] = "l115" /\ pc'[c] = "l115" /\ <<pos[c], lists[c]>>' # <<pos[c], lists[c]>>) =>
              /\ pos'[c] = pos[c] + 1
              /\ lists'[c] =
                    ProcessMessage(lists[c], Parsed[mailbox[Trailing(Len(mailbox))[pos[c]]]])
        /\ (pc[c] = "l115" /\ pc'[c] = "l175") =>
              /\ pos[c] = Min(Len(mailbox), 200) + 1
              /\ lists[c] =
                    ListsOf(SubSeq(mailbox, Len(mailbox) - Min(Len(mailbox), 200) + 1, Len(mailbox)))
        /\ (pc[c] = "l192" /\ pc'[c] = "return" /\ Len(mailbox) = 0) =>
              /\ lists[c] = EmptyLists
              /\ cached_time_slots' = Some(<< >>)
              /\ Len(cached_class_counts'[1]) = 11
              /\ \A j \in 1..11 : cached_class_counts'[1][j][2] = 0
              /\ Len(cached_days'[1]) = 7
              /\ \A j \in 1..7 : cached_days'[1][j][2] = 0]_vars

\* C14 witness: the fetch has returned on an inbox of more than 200 messages
\* of the sender, having run over 200 identifiers, the first of them not the
\* oldest.
C14_Witness ==
  \E c \in Callers :
     /\ pc[c] = "l175"
     /\ Len(mailbox) > 200
     /\ Len(email_ids[c]) = 200
     /\ email_ids[c][1] = Len(mailbox) - 199
     /\ Len(lists[c].time_slots) = 200

\* C15: a body that matches the pattern gives the day token and the two time
\* tokens as written, whatever am/pm markers follow the times, and so the key
\* "{day} {start} - {end}" without any marker; a body that does not match
\* gives no time slot.
C15_MarkersDiscarded ==
  probe.done =>
     IF probe.parts.shape = "dated"
     THEN /\ probe.match = [group1 |-> probe.parts.day, group2 |-> probe.parts.start,
                            group4 |-> probe.parts.end]
          /\ probe.key = probe.parts.day \o <<" ">> \o probe.parts.start \o <<" ", "-", " ">>
                            \o probe.parts.end
     ELSE probe.match = NO_MATCH

\* C15 witness: a body with a marker right after the first time and a
\* different marker, after a space, after the second has been searched and
\* has matched.
C15_Witness ==
  /\ probe.done
  /\ probe.match # NO_MATCH
  /\ probe.parts.m1 = <<"a", "m">>
  /\ probe.parts.m2 = <<" ", "P", "M">>

\* C16: in every reachable state, if the cache timestamp is set then the
\* three stored distributions are set, and a caller whose endpoint has
\* returned holds a distribution, never the absent value.
C16_StampedCacheIsComplete ==
  /\ cached_time # NO_TIME =>
        /\ cached_time_slots # Absent
        /\ cached_class_counts # Absent
        /\ cached_days # Absent
  /\ \A c \in Callers :
        pc[c] = "returned" => result[c] # Absent /\ result[c][1] # Absent

\* C16 witness: one caller's endpoint has returned from a stamped cache
\* while the other caller's refresh is between its first and its last
\* assignment.
C16_Witness ==
  \E c, d \in Callers :
     /\ c # d
     /\ pc[c] = "returned"
     /\ result[c] # Absent
     /\ cached_time # NO_TIME
     /\ MidStore(d)
     /\ cached_time_slots # Absent

\* C17: a connection opened by a call of the fetch is logged out by the time
\* the call ends, whether it returns or raises: no caller at rest holds an
\* open connection.
C17_ConnectionLoggedOut ==
  \A c \in Callers : Resting(c) => conn[c] # "open"

\* the sum of the counts of a distribution, over its entries from i on
RECURSIVE SumCounts(_, _)
SumCounts(d, i) == IF i > Len(d) THEN 0 ELSE d[i][2] + SumCounts(d, i + 1)

\* C18: after every successful refresh the counts of the day-only
\* distribution add up to the same number as the counts of the time-slot
\* distribution: every message counted under a time-slot key is counted under
\* one of the 7 weekdays.
C18_DaySumEqualsSlotSum ==
  \A c \in Callers :
     Refreshed(c) => SumCounts(cached_days[1], 1) = SumCounts(cached_time_slots[1], 1)

=============================================================================
